---- MODULE Spec2Model ----
(***************************************************************************)
(* A model of py-import-cycles (src/project/main.py).                      *)
(*                                                                         *)
(* Six specifications share one set of variables:                          *)
(*   Spec        the cycle detector and the edge classifier working on an  *)
(*               ImportsByModule mapping (DetectImportCycles,              *)
(*               _make_all_edges, _is_in_cycle);                           *)
(*   SpecResolve the module resolver applied to one import statement       *)
(*               (ModulePathAndName, ImportSTMT, ImportFromSTMT);          *)
(*   SpecBuild   the graph builder (_get_module_name_from_path,            *)
(*               _get_imports_by_module);                                  *)
(*   SpecVisit   the per-file loop of _visit_python_files;                 *)
(*   SpecWalk    the walk of NodeVisitorImports over one syntax tree;      *)
(*   SpecLive    Spec with the steps of detect_cycles taken eventually.    *)
(*                                                                         *)
(* In Spec a module name is a natural number; the order of the numbers is  *)
(* the order Python gives the names as strings.  In SpecResolve a string   *)
(* is a sequence of characters (numbers), Dot being the character ".".     *)
(***************************************************************************)
EXTENDS Integers, Sequences, FiniteSets, TLC

VARIABLES
    phase,           \* position of main(): "build", "detect", "done", ...
    module_imports,  \* DetectImportCycles._module_imports: the dict, in insertion order
    root,            \* detect_cycles: number of keys whose descent was started
    stack,           \* the call stack of _detect_cycles: frames [base_chain, rest]
    cycles,          \* DetectImportCycles._cycles: the dict, in insertion order
    found,           \* history: every chain handed to _add_cycle, in order
    result,          \* DetectImportCycles.cycles, as _find_import_cycles returns it
    edges,           \* what _make_all_edges returns
    pyfiles,         \* the .py files below the project path, each as its parts, suffix stripped
    mapping,         \* main(): the --map table, a dict in insertion order
    last,            \* the last call of get_imported_module_names: its arguments and outcome
    visited,         \* the visitors _get_imports_by_module has consumed, with their module names
    current,         \* the visitor whose import statements are being resolved
    imported,        \* the ImportedModule list being built for `current`
    imports_by_module, \* the dict _get_imports_by_module builds, in insertion order
    files,           \* _visit_python_files: what reading and parsing each file will do
    file_idx,        \* _visit_python_files: number of files consumed
    visitors,        \* _visit_python_files: the files whose visitor was yielded
    run_state,       \* _visit_python_files: "running", "finished" or "aborted"
    tree,            \* the syntax tree handed to NodeVisitorImports.visit, nodes in preorder
    walk,            \* the nodes whose visit method is running, outermost first (0: the Module)
    pos,             \* number of nodes of the tree whose visit was started
    self_context,    \* NodeVisitorImports._context
    import_stmts     \* NodeVisitorImports._import_stmts

detectVars == <<phase, module_imports, root, stack, cycles, found, result, edges>>

fsVars == <<pyfiles, mapping>>

buildVars == <<visited, current, imported, imports_by_module>>

visitVars == <<files, file_idx, visitors, run_state>>

walkVars == <<tree, walk, pos, self_context, import_stmts>>

vars == <<detectVars, fsVars, last, buildVars, visitVars, walkVars>>

(***************************************************************************)
(* Bounds of the model.                                                    *)
(***************************************************************************)
NumModules == 3
MaxEdges == 3
MaxFiles == 2
MaxAliases == 2
MaxStmts == 2
MaxVisitors == 2
MaxVisitFiles == 3

Modules == 1..NumModules

(***************************************************************************)
(* Python's list and tuple primitives.                                     *)
(***************************************************************************)
\* a variant of the membership test that does not look at the first element
ContainsRootExempt(s, x) == \E i \in 2..Len(s) : s[i] = x

\* x in s
Contains(s, x) == \E i \in 1..Len(s) : s[i] = x

\* s.index(x), 1-based: the first position of x
Index(s, x) == CHOOSE i \in 1..Len(s) : s[i] = x /\ \A j \in 1..(i - 1) : s[j] # x

\* tuple comparison a < b: the first differing element decides, a proper prefix is smaller
LexLess(a, b) ==
    \E i \in 1..(Len(b)) :
        /\ \A j \in 1..(i - 1) : j <= Len(a) /\ a[j] = b[j]
        /\ \/ i = Len(a) + 1
           \/ i <= Len(a) /\ a[i] < b[i]

LexLeq(a, b) == a = b \/ LexLess(a, b)

\* sorted(s) for a list of names: a stable insertion sort
RECURSIVE SortedNames(_)
SortedNames(s) ==
    IF s = <<>> THEN <<>>
    ELSE LET x == s[Len(s)]
             front == SortedNames(SubSeq(s, 1, Len(s) - 1))
             k == Cardinality({i \in 1..Len(front) : front[i] <= x})
         IN SubSeq(front, 1, k) \o <<x>> \o SubSeq(front, k + 1, Len(front))

(***************************************************************************)
(* The ImportsByModule mapping.                                            *)
(***************************************************************************)
IsKey(g, m) == \E i \in 1..Len(g) : g[i].name = m

\* self._module_imports.get(name, [])
GetImports(g, m) ==
    IF IsKey(g, m) THEN g[CHOOSE i \in 1..Len(g) : g[i].name = m].imports ELSE <<>>

HasEdge(g, a, b) == IsKey(g, a) /\ Contains(GetImports(g, a), b)

RECURSIVE CountEdges(_)
CountEdges(g) ==
    IF g = <<>> THEN 0 ELSE Len(g[Len(g)].imports) + CountEdges(SubSeq(g, 1, Len(g) - 1))

(***************************************************************************)
(* DetectImportCycles._add_cycle                                           *)
(***************************************************************************)
\* first_idx = chain.index(chain[-1]); cycle = tuple(chain[first_idx:])
CycleOfSkipFirst(chain) ==
    SubSeq(chain, Index(chain, chain[Len(chain)]) + 1, Len(chain))

CycleOf(chain) ==
    SubSeq(chain, Index(chain, chain[Len(chain)]), Len(chain))

\* tuple(sorted(cycle[:-1]))
CycleKey(cycle) == SortedNames(SubSeq(cycle, 1, Len(cycle) - 1))

\* a variant that keys the dict by the cycle as discovered
AddCycleUnsortedKey(cyc, chain) ==
    LET cycle == CycleOf(chain)
        key == SubSeq(cycle, 1, Len(cycle) - 1)
    IN IF \E i \in 1..Len(cyc) : cyc[i].key = key
       THEN LET i == CHOOSE i \in 1..Len(cyc) : cyc[i].key = key
            IN [cyc EXCEPT ![i].chains = Append(@, chain)]
       ELSE Append(cyc, [key |-> key, cycle |-> cycle, chains |-> <<chain>>])

\* self._cycles.setdefault(key, CycleAndChains(cycle)).chains.append(chain)
AddCycle(cyc, chain) ==
    LET cycle == CycleOf(chain)
        key == CycleKey(cycle)
    IN IF \E i \in 1..Len(cyc) : cyc[i].key = key
       THEN LET i == CHOOSE i \in 1..Len(cyc) : cyc[i].key = key
            IN [cyc EXCEPT ![i].chains = Append(@, chain)]
       ELSE Append(cyc, [key |-> key, cycle |-> cycle, chains |-> <<chain>>])

(***************************************************************************)
(* DetectImportCycles.cycles:                                              *)
(*     sorted(self._cycles.values(), key=lambda icwc: icwc.cycle)          *)
(***************************************************************************)
RECURSIVE SortByCycle(_)
SortByCycle(recs) ==
    IF recs = <<>> THEN <<>>
    ELSE LET x == recs[Len(recs)]
             front == SortByCycle(SubSeq(recs, 1, Len(recs) - 1))
             k == Cardinality({i \in 1..Len(front) : LexLeq(front[i].cycle, x.cycle)})
         IN SubSeq(front, 1, k) \o <<x>> \o SubSeq(front, k + 1, Len(front))

\* a variant that returns the values in insertion order
CyclesUnsorted(cyc) == cyc

Cycles(cyc) == SortByCycle(cyc)

(***************************************************************************)
(* _is_in_cycle: the position of the record returned, 0 for None,          *)
(* -1 when cycle[idx + 1] raises IndexError.                               *)
(***************************************************************************)
RECURSIVE IsInCycleFrom(_, _, _, _)
IsInCycleFrom(module, the_import, import_cycles, n) ==
    IF n > Len(import_cycles) THEN 0
    ELSE LET cycle == import_cycles[n].cycle
         IN IF ~Contains(cycle, module)
            THEN IsInCycleFrom(module, the_import, import_cycles, n + 1)
            ELSE LET idx == Index(cycle, module)
                 IN IF idx + 1 > Len(cycle) THEN -1
                    ELSE IF cycle[idx + 1] = the_import THEN n
                    ELSE IsInCycleFrom(module, the_import, import_cycles, n + 1)

\* a variant that gives up at the first cycle that holds the module
RECURSIVE IsInCycleFirstOnlyFrom(_, _, _, _)
IsInCycleFirstOnlyFrom(module, the_import, import_cycles, n) ==
    IF n > Len(import_cycles) THEN 0
    ELSE LET cycle == import_cycles[n].cycle
         IN IF ~Contains(cycle, module)
            THEN IsInCycleFirstOnlyFrom(module, the_import, import_cycles, n + 1)
            ELSE LET idx == Index(cycle, module)
                 IN IF idx + 1 > Len(cycle) THEN -1
                    ELSE IF cycle[idx + 1] = the_import THEN n
                    ELSE 0

IsInCycleFirstOnly(module, the_import, import_cycles) ==
    IsInCycleFirstOnlyFrom(module, the_import, import_cycles, 1)

IsInCycle(module, the_import, import_cycles) ==
    IsInCycleFrom(module, the_import, import_cycles, 1)

(***************************************************************************)
(* _make_all_edges.  An ImportEdge is (title, module, imports, color,      *)
(* context) with title "" and context (); the model keeps module, imports  *)
(* and color.  The color "error" stands for the IndexError of              *)
(* _is_in_cycle.                                                           *)
(***************************************************************************)
ColorRank(c) == IF c = "black" THEN 0 ELSE IF c = "red" THEN 1 ELSE 2

\* ImportEdge comparison a < b
EdgeLess(a, b) ==
    \/ a.module < b.module
    \/ a.module = b.module /\ a.imports < b.imports
    \/ a.module = b.module /\ a.imports = b.imports /\ ColorRank(a.color) < ColorRank(b.color)

EdgeColor(module, the_import, import_cycles) ==
    LET import_cycle == IsInCycle(module, the_import, import_cycles)
    IN IF import_cycle = -1 THEN "error"
       ELSE IF import_cycle = 0 THEN "black" ELSE "red"

\* the set `edges` after the two loops
EdgeSet(g, import_cycles) ==
    UNION { { [module |-> g[i].name,
               imports |-> g[i].imports[j],
               color |-> EdgeColor(g[i].name, g[i].imports[j], import_cycles)] :
              j \in 1..Len(g[i].imports) } : i \in 1..Len(g) }

\* sorted(edges)
RECURSIVE SortedEdges(_)
SortedEdges(S) ==
    IF S = {} THEN <<>>
    ELSE LET m == CHOOSE e \in S : \A f \in S : f = e \/ EdgeLess(e, f)
         IN <<m>> \o SortedEdges(S \ {m})

MakeAllEdges(g, import_cycles) == SortedEdges(EdgeSet(g, import_cycles))

(***************************************************************************)
(* Spec: the graph handed to the detector, then detect_cycles, then the    *)
(* cycles property and _make_all_edges.                                    *)
(***************************************************************************)
\* no NodeVisitorImports is at work
NoWalk ==
    /\ tree = <<>>
    /\ walk = <<>>
    /\ pos = 0
    /\ self_context = <<>>
    /\ import_stmts = <<>>

Init ==
    /\ phase = "build"
    /\ module_imports = <<>>
    /\ root = 0
    /\ stack = <<>>
    /\ cycles = <<>>
    /\ found = <<>>
    /\ result = <<>>
    /\ edges = <<>>
    /\ pyfiles = {}
    /\ mapping = <<>>
    /\ last = <<>>
    /\ visited = <<>>
    /\ current = <<>>
    /\ imported = <<>>
    /\ imports_by_module = <<>>
    /\ files = <<>>
    /\ file_idx = 0
    /\ visitors = <<>>
    /\ run_state = "idle"
    /\ NoWalk

\* _get_imports_by_module yields the next key with its first imported module
\* (a key without imports is to _detect_cycles what an absent key is: .get(.., []))
BuildKey(m, t) ==
    /\ phase = "build"
    /\ ~IsKey(module_imports, m)
    /\ CountEdges(module_imports) < MaxEdges
    /\ module_imports' = Append(module_imports, [name |-> m, imports |-> <<t>>])
    /\ UNCHANGED <<phase, root, stack, cycles, found, result, edges>>
    /\ UNCHANGED <<fsVars, last, buildVars, visitVars, walkVars>>

\* ... and a further imported module of the key being built
AddImport(t) ==
    /\ phase = "build"
    /\ module_imports # <<>>
    /\ CountEdges(module_imports) < MaxEdges
    /\ module_imports' =
           [module_imports EXCEPT ![Len(module_imports)].imports = Append(@, t)]
    /\ UNCHANGED <<phase, root, stack, cycles, found, result, edges>>
    /\ UNCHANGED <<fsVars, last, buildVars, visitVars, walkVars>>

\* the hand-built graph A->B, B->C, C->A, C->D, its keys and C's imports in any order
FixtureEntries(cImports) ==
    << [name |-> 1, imports |-> <<2>>],
       [name |-> 2, imports |-> <<3>>],
       [name |-> 3, imports |-> cImports] >>

LoadFixture(p, cImports) ==
    /\ phase = "build"
    /\ module_imports = <<>>
    /\ module_imports' = [i \in 1..3 |-> FixtureEntries(cImports)[p[i]]]
    /\ phase' = "detect"
    /\ UNCHANGED <<root, stack, cycles, found, result, edges>>
    /\ UNCHANGED <<fsVars, last, buildVars, visitVars, walkVars>>

\* _find_import_cycles: detector = DetectImportCycles(module_imports)
StartDetect ==
    /\ phase = "build"
    /\ phase' = "detect"
    /\ UNCHANGED <<module_imports, root, stack, cycles, found, result, edges>>
    /\ UNCHANGED <<fsVars, last, buildVars, visitVars, walkVars>>

\* detect_cycles: self._detect_cycles([module_name], module_imports) for the next key
DetectRoot ==
    /\ phase = "detect"
    /\ stack = <<>>
    /\ root < Len(module_imports)
    /\ root' = root + 1
    /\ stack' = << [base_chain |-> <<module_imports[root + 1].name>>,
                    rest |-> module_imports[root + 1].imports] >>
    /\ UNCHANGED <<phase, module_imports, cycles, found, result, edges>>
    /\ UNCHANGED <<fsVars, last, buildVars, visitVars, walkVars>>

\* _detect_cycles: the next module_import is in base_chain: _add_cycle(chain); return
FoundCycle ==
    /\ phase = "detect"
    /\ stack # <<>>
    /\ LET top == stack[Len(stack)]
       IN /\ top.rest # <<>>
          /\ Contains(top.base_chain, Head(top.rest))
          /\ LET chain == Append(top.base_chain, Head(top.rest))
             IN /\ cycles' = AddCycle(cycles, chain)
                /\ found' = Append(found, chain)
          /\ stack' = SubSeq(stack, 1, Len(stack) - 1)
    /\ UNCHANGED <<phase, module_imports, root, result, edges>>
    /\ UNCHANGED <<fsVars, last, buildVars, visitVars, walkVars>>

\* _detect_cycles: the next module_import is new: recurse with chain
Descend ==
    /\ phase = "detect"
    /\ stack # <<>>
    /\ LET top == stack[Len(stack)]
       IN /\ top.rest # <<>>
          /\ ~Contains(top.base_chain, Head(top.rest))
          /\ LET chain == Append(top.base_chain, Head(top.rest))
             IN stack' = Append([stack EXCEPT ![Len(stack)].rest = Tail(@)],
                                [base_chain |-> chain,
                                 rest |-> GetImports(module_imports, Head(top.rest))])
    /\ UNCHANGED <<phase, module_imports, root, cycles, found, result, edges>>
    /\ UNCHANGED <<fsVars, last, buildVars, visitVars, walkVars>>

\* _detect_cycles: the for loop is exhausted
Return ==
    /\ phase = "detect"
    /\ stack # <<>>
    /\ stack[Len(stack)].rest = <<>>
    /\ stack' = SubSeq(stack, 1, Len(stack) - 1)
    /\ UNCHANGED <<phase, module_imports, root, cycles, found, result, edges>>
    /\ UNCHANGED <<fsVars, last, buildVars, visitVars, walkVars>>

\* detect_cycles returns; main reads detector.cycles and calls _make_all_edges
Finish ==
    /\ phase = "detect"
    /\ stack = <<>>
    /\ root = Len(module_imports)
    /\ phase' = "done"
    /\ result' = Cycles(cycles)
    /\ edges' = MakeAllEdges(module_imports, Cycles(cycles))
    /\ UNCHANGED <<module_imports, root, stack, cycles, found>>
    /\ UNCHANGED <<fsVars, last, buildVars, visitVars, walkVars>>

Next ==
    \/ \E m \in Modules, t \in Modules : BuildKey(m, t)
    \/ \E t \in Modules : AddImport(t)
    \/ \E p \in Permutations(1..3), c \in {<<1, 4>>, <<4, 1>>} : LoadFixture(p, c)
    \/ StartDetect
    \/ DetectRoot
    \/ FoundCycle
    \/ Descend
    \/ Return
    \/ Finish

Spec == Init /\ [][Next]_vars

(***************************************************************************)
(* Properties of the detector and the edge classifier (checked under Spec) *)
(***************************************************************************)
Names(g) ==
    {g[i].name : i \in 1..Len(g)} \cup UNION {{g[i].imports[j] : j \in 1..Len(g[i].imports)} : i \in 1..Len(g)}

\* the elementary cycles of g, each as the sequence m0 .. m(k-1) of its members
ElementaryCycles(g) ==
    {c \in UNION {[1..k -> Names(g)] : k \in 1..Cardinality(Names(g))} :
        /\ \A i, j \in 1..Len(c) : i # j => c[i] # c[j]
        /\ \A i \in 1..Len(c) : HasEdge(g, c[i], c[(i % Len(c)) + 1])}

Range(s) == {s[i] : i \in 1..Len(s)}

\* every consecutive pair of s is an edge of g
PathIn(g, s) == \A i \in 1..(Len(s) - 1) : HasEdge(g, s[i], s[i + 1])

\* C1: when the run is over, every elementary cycle of the graph has a CycleRecord
\* whose deduplication key is the sorted set of the cycle's members.
C1_CycleCompleteness ==
    phase = "done" =>
        \A c \in ElementaryCycles(module_imports) :
            \E i \in 1..Len(result) : result[i].key = SortedNames(c)

\* C2: in every record, during the run and in its result, the stored cycle ends
\* where it starts and each consecutive pair of it is an edge of the graph; the
\* consecutive pairs of every stored chain are edges as well.
C2_CycleSoundness ==
    \A recs \in {cycles, result} :
        \A i \in 1..Len(recs) :
            /\ Len(recs[i].cycle) >= 2
            /\ recs[i].cycle[Len(recs[i].cycle)] = recs[i].cycle[1]
            /\ PathIn(module_imports, recs[i].cycle)
            /\ \A n \in 1..Len(recs[i].chains) : PathIn(module_imports, recs[i].chains[n])

C2_Witness ==
    /\ phase = "done"
    /\ \E i \in 1..Len(result) :
           /\ Len(result[i].cycle) >= 3
           /\ \E n \in 1..Len(result[i].chains) : result[i].chains[n] # result[i].cycle

\* C3 as stated: the returned list is ascending in the records' deduplication keys.
C3_SortedByKey ==
    phase = "done" =>
        \A i \in 1..(Len(result) - 1) : LexLeq(result[i].key, result[i + 1].key)

\* C3 as amended: the returned list holds exactly the records of the run and is
\* ascending in the records' stored cycles (the tuples in discovery order),
\* whatever the order of the graph's keys.
C3_SortedByCycle ==
    phase = "done" =>
        /\ Len(result) = Len(cycles)
        /\ Range(result) = Range(cycles)
        /\ \A i \in 1..(Len(result) - 1) : LexLeq(result[i].cycle, result[i + 1].cycle)

C3_Witness ==
    /\ phase = "done"
    /\ Len(result) >= 2
    /\ result # cycles

\* C9: _make_all_edges returns one tuple per distinct edge of the graph, strictly
\* ascending in (fromModule, toModule); a tuple is red exactly when fromModule is
\* immediately followed by toModule in the stored cycle of some record, black
\* otherwise; and cycle[idx + 1] never raises.
C9_AllEdges ==
    phase = "done" =>
        /\ {<<edges[i].module, edges[i].imports>> : i \in 1..Len(edges)}
               = {e \in Names(module_imports) \X Names(module_imports) :
                      HasEdge(module_imports, e[1], e[2])}
        /\ \A i \in 1..(Len(edges) - 1) :
               LexLess(<<edges[i].module, edges[i].imports>>,
                       <<edges[i + 1].module, edges[i + 1].imports>>)
        /\ \A i \in 1..Len(edges) :
               /\ edges[i].color \in {"black", "red"}
               /\ edges[i].color = "red" <=>
                      \E r \in 1..Len(result) :
                          \E n \in 1..(Len(result[r].cycle) - 1) :
                              /\ result[r].cycle[n] = edges[i].module
                              /\ result[r].cycle[n + 1] = edges[i].imports

C9_Witness ==
    /\ phase = "done"
    /\ \E i, j \in 1..Len(edges) : edges[i].color = "red" /\ edges[j].color = "black"
    /\ \E i \in 1..Len(module_imports) :
           \E a, b \in 1..Len(module_imports[i].imports) :
               a # b /\ module_imports[i].imports[a] = module_imports[i].imports[b]

\* the chains of `found` whose closing cycle has the node-set key, in order
RECURSIVE ChainsWithKey(_, _)
ChainsWithKey(chains, key) ==
    IF chains = <<>> THEN <<>>
    ELSE LET front == ChainsWithKey(SubSeq(chains, 1, Len(chains) - 1), key)
             chain == chains[Len(chains)]
         IN IF SortedNames(SubSeq(chain, Index(chain, chain[Len(chain)]), Len(chain) - 1)) = key
            THEN Append(front, chain) ELSE front

IsFixture(g) ==
    /\ Len(g) = 3
    /\ {<<g[i].name, Range(g[i].imports)>> : i \in 1..3} = {<<1, {2}>>, <<2, {3}>>, <<3, {1, 4}>>}
    /\ CountEdges(g) = 4

\* C10: at every point of the run no two records have the same node-set; a
\* record's chains are, in discovery order, the chains found so far whose closing
\* cycle has the record's node-set; its stored cycle is the closing cycle of its
\* first chain.  On A->B, B->C, C->A, C->D the result is one record, of node-set
\* {A,B,C}, with [A,B,C,A] among its chains, and D is in no cycle.
C10_RecordDedup ==
    /\ \A recs \in {cycles, result} :
           /\ \A i, j \in 1..Len(recs) :
                  i # j => Range(recs[i].cycle) # Range(recs[j].cycle)
           /\ \A i \in 1..Len(recs) :
                  LET nodes == SortedNames(SubSeq(recs[i].cycle, 1, Len(recs[i].cycle) - 1))
                      first == recs[i].chains[1]
                  IN /\ recs[i].chains = ChainsWithKey(found, nodes)
                     /\ recs[i].chains # <<>>
                     /\ recs[i].cycle = SubSeq(first, Index(first, first[Len(first)]), Len(first))
    /\ \A n \in 1..Len(found) : \E i \in 1..Len(cycles) : Contains(cycles[i].chains, found[n])
    /\ (phase = "done" /\ IsFixture(module_imports)) =>
           /\ Len(result) = 1
           /\ Range(result[1].cycle) = {1, 2, 3}
           /\ Contains(result[1].chains, <<1, 2, 3, 1>>)
           /\ \A i \in 1..Len(result) : ~Contains(result[i].cycle, 4)

C10_Witness ==
    /\ phase = "done"
    /\ IsFixture(module_imports)
    /\ Len(result) = 1
    /\ Len(result[1].chains) = 3
    /\ result[1].cycle # <<1, 2, 3, 1>>

(***************************************************************************)
(* Strings, paths and the file system of the resolver.                     *)
(* A string is a sequence of characters; Dot is ".".  A path below the     *)
(* project path is the sequence of its parts; a .py file is kept without   *)
(* its suffix, so that with_suffix(".py").exists() is membership in        *)
(* pyfiles, and relative_to(project_path).with_suffix("").parts is the     *)
(* element itself.                                                         *)
(***************************************************************************)
Dot == 0

NameA == <<1>>
NameB == <<2>>
InitName == <<3>>      \* "__init__"

\* s.split(".")
RECURSIVE Split(_)
Split(s) ==
    IF ~Contains(s, Dot) THEN <<s>>
    ELSE LET i == Index(s, Dot)
         IN <<SubSeq(s, 1, i - 1)>> \o Split(SubSeq(s, i + 1, Len(s)))

\* ".".join(parts)
RECURSIVE Join(_)
Join(parts) ==
    IF parts = <<>> THEN <<>>
    ELSE IF Len(parts) = 1 THEN parts[1]
    ELSE parts[1] \o <<Dot>> \o Join(Tail(parts))

\* _is_builtin_or_stdlib: the host's answer; here the module "b" is one the host finds
IsBuiltinOrStdlib(module_name) == module_name \in {NameB}

\* ModulePathAndName.make
Make(map, module_name) ==
    LET parts == Split(module_name)
        hits == {i \in 1..Len(map) : Contains(parts, map[i].value)}
    IN [path |-> IF hits = {} THEN parts
                 ELSE <<map[CHOOSE i \in hits : \A j \in hits : i <= j].key>> \o parts,
        name |-> module_name]

\* ModulePathAndName.py_exists
PyExists(fs, mpn) == mpn.path \in fs

\* Path.is_dir
IsDir(fs, path) ==
    \E f \in fs : Len(f) > Len(path) /\ SubSeq(f, 1, Len(path)) = path

\* ModulePathAndName.init_exists
InitExists(fs, mpn) == IsDir(fs, mpn.path) /\ Append(mpn.path, InitName) \in fs

\* a variant that folds a package-init leaf into its parent
GetModuleNameCollapsingInit(map, module_path) ==
    LET hits == {i \in 1..Len(map) :
                    /\ map[i].key = module_path[1]
                    /\ Contains(Tail(module_path), map[i].value)}
        parts == IF hits = {} THEN module_path ELSE Tail(module_path)
    IN IF parts[Len(parts)] = InitName /\ Len(parts) > 1
       THEN Join(SubSeq(parts, 1, Len(parts) - 1))
       ELSE Join(parts)

\* _get_module_name_from_path
GetModuleNameFromPath(map, module_path) ==
    LET hits == {i \in 1..Len(map) :
                    /\ map[i].key = module_path[1]
                    /\ Contains(Tail(module_path), map[i].value)}
    IN IF hits = {} THEN Join(module_path) ELSE Join(Tail(module_path))

\* a call of logger.debug
LogInit(fmt, base, name) ==
    [fmt |-> fmt, module |-> base, what |-> "init", name |-> Join(<<name, InitName>>)]

LogNode(fmt, base) ==
    [fmt |-> fmt, module |-> base, what |-> "node", name |-> <<>>]

(***************************************************************************)
(* ImportSTMT.get_imported_module_names: the loop over node.names from     *)
(* alias n on, acc holding imported_module_names and the debug calls made. *)
(***************************************************************************)
RECURSIVE ImportLoop(_, _, _, _, _, _)
ImportLoop(names, n, map, fs, base, acc) ==
    IF n > Len(names) THEN acc
    ELSE LET alias == names[n]
             mpn == Make(map, alias)
         IN IF IsBuiltinOrStdlib(alias)
            THEN ImportLoop(names, n + 1, map, fs, base, acc)
            ELSE IF PyExists(fs, mpn)
            THEN ImportLoop(names, n + 1, map, fs, base,
                     [acc EXCEPT !.names = IF Contains(@, mpn.name) THEN @
                                           ELSE Append(@, mpn.name)])
            ELSE IF InitExists(fs, mpn)
            THEN ImportLoop(names, n + 1, map, fs, base,
                     [acc EXCEPT !.log = Append(@, LogInit("Import", base, mpn.name))])
            ELSE ImportLoop(names, n + 1, map, fs, base,
                     [acc EXCEPT !.log = Append(@, LogNode("Import", base))])

ImportNames(stmt, map, fs, base) ==
    ImportLoop(stmt.names, 1, map, fs, base, [names |-> <<>>, log |-> <<>>])

(***************************************************************************)
(* ImportFromSTMT.get_imported_module_names                                *)
(***************************************************************************)
\* a variant of the loop that keeps a name every time it resolves
RECURSIVE ImportFromLoopKeepAll(_, _, _, _, _, _, _)
ImportFromLoopKeepAll(names, n, map, fs, base, pkg, acc) ==
    IF n > Len(names) THEN acc
    ELSE LET sub == Make(map, Join(<<pkg, names[n]>>))
         IN IF PyExists(fs, sub)
            THEN ImportFromLoopKeepAll(names, n + 1, map, fs, base, pkg,
                     [acc EXCEPT !.names = Append(@, sub.name)])
            ELSE ImportFromLoopKeepAll(names, n + 1, map, fs, base, pkg,
                     [acc EXCEPT !.log = Append(@, LogNode("ImportFrom", base))])

\* the loop over node.names when the module's path is a directory
RECURSIVE ImportFromLoop(_, _, _, _, _, _, _)
ImportFromLoop(names, n, map, fs, base, pkg, acc) ==
    IF n > Len(names) THEN acc
    ELSE LET sub == Make(map, Join(<<pkg, names[n]>>))
         IN IF PyExists(fs, sub)
            THEN ImportFromLoop(names, n + 1, map, fs, base, pkg,
                     [acc EXCEPT !.names = IF Contains(@, sub.name) THEN @
                                           ELSE Append(@, sub.name)])
            ELSE ImportFromLoop(names, n + 1, map, fs, base, pkg,
                     [acc EXCEPT !.log = Append(@, LogNode("ImportFrom", base))])

\* base_module_name.split(".")[: -level] + module.split(".")
AbsoluteName(base, level, module) ==
    LET parts == Split(base)
        kept == IF level >= Len(parts) THEN <<>> ELSE SubSeq(parts, 1, Len(parts) - level)
    IN Join(kept \o Split(module))

ImportFromNames(stmt, map, fs, base) ==
    IF stmt.module = <<>> THEN [names |-> <<>>, log |-> <<>>]
    ELSE IF IsBuiltinOrStdlib(stmt.module) THEN [names |-> <<>>, log |-> <<>>]
    ELSE LET module_name == IF stmt.level = 0 THEN stmt.module
                            ELSE AbsoluteName(base, stmt.level, stmt.module)
             mpn == Make(map, module_name)
         IN IF PyExists(fs, mpn) THEN [names |-> <<mpn.name>>, log |-> <<>>]
            ELSE IF InitExists(fs, mpn)
            THEN [names |-> <<>>, log |-> <<LogInit("ImportFrom", base, mpn.name)>>]
            ELSE IF IsDir(fs, mpn.path)
            THEN ImportFromLoop(stmt.names, 1, map, fs, base, mpn.name,
                                [names |-> <<>>, log |-> <<>>])
            ELSE [names |-> <<>>, log |-> <<LogNode("ImportFrom", base)>>]

\* import_stmt.get_imported_module_names(mapping, project_path, module_name)
GetImportedModuleNames(stmt, map, fs, base) ==
    IF stmt.kind = "Import" THEN ImportNames(stmt, map, fs, base)
    ELSE ImportFromNames(stmt, map, fs, base)

(***************************************************************************)
(* The inputs of the resolver and of the graph builder.                    *)
(***************************************************************************)
\* a.py, b.py, a/a.py, a/b.py, a/__init__.py, b/a.py, and a.py in a directory "a.b"
FileUniverse ==
    { <<NameA>>, <<NameB>>, <<NameA, NameA>>, <<NameA, NameB>>, <<NameA, InitName>>,
      <<NameB, NameA>>, <<Join(<<NameA, NameB>>), NameA>> }

FileSystems == {fs \in SUBSET FileUniverse : Cardinality(fs) \in 1..MaxFiles}

\* --map: nothing, a:b, b:a, and b:a followed by a:a
Mappings ==
    { <<>>,
      <<[key |-> NameA, value |-> NameB]>>,
      <<[key |-> NameB, value |-> NameA]>>,
      <<[key |-> NameB, value |-> NameA], [key |-> NameA, value |-> NameA]>> }

SeqsUpTo(S, n) == UNION {[1..k -> S] : k \in 1..n}

ImportTargets ==
    { NameA, NameB, Join(<<NameA, NameA>>), Join(<<NameA, NameB>>),
      Join(<<NameA, InitName>>) }

\* node.module of a From import; <<>> is None, as in `from . import x`
FromModules == { <<>>, NameA, NameB, Join(<<NameA, NameB>>) }

Levels == 0..2

ImportStmts(contexts, targets, n) ==
    { [kind |-> "Import", context |-> c, names |-> ns] :
        c \in contexts, ns \in SeqsUpTo(targets, n) }

ImportFromStmts(contexts, modules, levels, n) ==
    { [kind |-> "ImportFrom", context |-> c, module |-> m, level |-> l, names |-> ns] :
        c \in contexts, m \in modules, l \in levels,
        ns \in SeqsUpTo({NameA, NameB}, n) }

Contexts == { <<>>, <<"If">> }

\* the targets of the Direct imports met by the graph builder
BuildTargets == { NameA, Join(<<NameA, NameA>>), Join(<<NameA, InitName>>) }

Blank ==
    /\ phase = "idle"
    /\ module_imports = <<>>
    /\ root = 0
    /\ stack = <<>>
    /\ cycles = <<>>
    /\ found = <<>>
    /\ result = <<>>
    /\ edges = <<>>
    /\ last = <<>>
    /\ visited = <<>>
    /\ current = <<>>
    /\ imported = <<>>
    /\ imports_by_module = <<>>

(***************************************************************************)
(* SpecResolve: get_imported_module_names applied to one statement of one  *)
(* module of the project.                                                  *)
(***************************************************************************)
InitResolve ==
    /\ Blank
    /\ pyfiles \in FileSystems
    /\ mapping \in Mappings
    /\ files = <<>>
    /\ file_idx = 0
    /\ visitors = <<>>
    /\ run_state = "idle"
    /\ NoWalk

Call(stmt, base) ==
    LET out == GetImportedModuleNames(stmt, mapping, pyfiles, base)
    IN [stmt |-> stmt, base |-> base, names |-> out.names, log |-> out.log]

ResolveImport(f, stmt) ==
    /\ last = <<>>
    /\ last' = <<Call(stmt, GetModuleNameFromPath(mapping, f))>>
    /\ UNCHANGED <<detectVars, fsVars, buildVars, visitVars, walkVars>>

ResolveImportFrom(f, stmt) ==
    /\ last = <<>>
    /\ last' = <<Call(stmt, GetModuleNameFromPath(mapping, f))>>
    /\ UNCHANGED <<detectVars, fsVars, buildVars, visitVars, walkVars>>

NextResolve ==
    \/ \E f \in pyfiles, stmt \in ImportStmts({<<>>}, ImportTargets, MaxAliases) :
           ResolveImport(f, stmt)
    \/ \E f \in pyfiles, stmt \in ImportFromStmts({<<>>}, FromModules, Levels, MaxAliases) :
           ResolveImportFrom(f, stmt)

SpecResolve == InitResolve /\ [][NextResolve]_vars

(***************************************************************************)
(* SpecBuild: _get_imports_by_module, one visitor after the other, one     *)
(* import statement after the other.                                       *)
(***************************************************************************)
InitBuild ==
    /\ Blank
    /\ pyfiles \in FileSystems
    /\ mapping \in Mappings
    /\ files = <<>>
    /\ file_idx = 0
    /\ visitors = <<>>
    /\ run_state = "idle"
    /\ NoWalk

\* ImportedModule(imported_module_name, import_stmt.context) for each name
ImportedModules(names, context) ==
    [i \in 1..Len(names) |-> [module_name |-> names[i], context |-> context]]

\* { key: value ... }: a key met again keeps its place and takes the new value
DictSet(d, key, value) ==
    IF \E i \in 1..Len(d) : d[i].name = key
    THEN [d EXCEPT ![CHOOSE i \in 1..Len(d) : d[i].name = key].imports = value]
    ELSE Append(d, [name |-> key, imports |-> value])

\* the import statements resolved so far, over all visitors
RECURSIVE StmtsOf(_)
StmtsOf(vs) == IF vs = <<>> THEN 0 ELSE vs[1].stmts + StmtsOf(Tail(vs))

\* for visitor in visitors, module_name = _get_module_name_from_path(...)
BeginVisitor(f) ==
    /\ current = <<>>
    /\ Len(visited) < MaxVisitors
    /\ \A i \in 1..Len(visited) : visited[i].path # f
    /\ current' = <<[path |-> f, module_name |-> GetModuleNameFromPath(mapping, f), stmts |-> 0]>>
    /\ imported' = <<>>
    /\ UNCHANGED <<detectVars, fsVars, last, visited, imports_by_module, visitVars, walkVars>>

\* for import_stmt in visitor.import_stmts, for imported_module_name in ...
BuildStmt(stmt) ==
    /\ stmt.kind \in {"Import", "ImportFrom"}
    /\ current # <<>>
    /\ StmtsOf(visited) + current[1].stmts < MaxStmts
    /\ imported' = imported \o ImportedModules(
           GetImportedModuleNames(stmt, mapping, pyfiles, current[1].module_name).names,
           stmt.context)
    /\ current' = [current EXCEPT ![1].stmts = @ + 1]
    /\ UNCHANGED <<detectVars, fsVars, last, visited, imports_by_module, visitVars, walkVars>>

BuildImport(stmt) == BuildStmt(stmt)

BuildImportFrom(stmt) == BuildStmt(stmt)

\* the visitor's statements are exhausted: the dict takes module_name: [...]
StoreModule ==
    /\ current # <<>>
    /\ imports_by_module' = DictSet(imports_by_module, current[1].module_name, imported)
    /\ visited' = Append(visited, current[1])
    /\ current' = <<>>
    /\ imported' = <<>>
    /\ UNCHANGED <<detectVars, fsVars, last, visitVars, walkVars>>

NextBuild ==
    \/ \E f \in pyfiles : BeginVisitor(f)
    \/ \E stmt \in ImportStmts(Contexts, BuildTargets, 1) : BuildImport(stmt)
    \/ \E stmt \in ImportFromStmts(Contexts, {NameA}, {0}, 1) : BuildImportFrom(stmt)
    \/ StoreModule

SpecBuild == InitBuild /\ [][NextBuild]_vars

(***************************************************************************)
(* SpecVisit: the loop of _visit_python_files.  files[i] says what         *)
(* open/read and ast.parse do for the i-th file.                           *)
(***************************************************************************)
Outcomes == {"ok", "UnicodeDecodeError", "SyntaxError", "OSError"}

InitVisit ==
    /\ Blank
    /\ pyfiles = {}
    /\ mapping = <<>>
    /\ files \in UNION {[1..k -> Outcomes] : k \in 0..MaxVisitFiles}
    /\ file_idx = 0
    /\ visitors = <<>>
    /\ run_state = "running"
    /\ NoWalk

NextFile(outcome) ==
    /\ run_state = "running"
    /\ file_idx < Len(files)
    /\ files[file_idx + 1] = outcome
    /\ file_idx' = file_idx + 1

\* visitor.visit(tree); yield visitor
YieldVisitor ==
    /\ NextFile("ok")
    /\ visitors' = Append(visitors, file_idx + 1)
    /\ UNCHANGED <<detectVars, fsVars, last, buildVars, files, run_state, walkVars>>

\* except UnicodeDecodeError: continue
SkipUndecodable ==
    /\ NextFile("UnicodeDecodeError")
    /\ UNCHANGED <<detectVars, fsVars, last, buildVars, files, visitors, run_state, walkVars>>

\* except SyntaxError: continue
SkipUnparsable ==
    /\ NextFile("SyntaxError")
    /\ UNCHANGED <<detectVars, fsVars, last, buildVars, files, visitors, run_state, walkVars>>

\* open() raises an OSError: no handler, the exception leaves the generator and main
RaiseOSError ==
    /\ NextFile("OSError")
    /\ run_state' = "aborted"
    /\ UNCHANGED <<detectVars, fsVars, last, buildVars, files, visitors, walkVars>>

\* the for loop is exhausted
FinishVisit ==
    /\ run_state = "running"
    /\ file_idx = Len(files)
    /\ run_state' = "finished"
    /\ UNCHANGED <<detectVars, fsVars, last, buildVars, files, file_idx, visitors, walkVars>>

NextVisit ==
    \/ YieldVisitor
    \/ SkipUndecodable
    \/ SkipUnparsable
    \/ RaiseOSError
    \/ FinishVisit

SpecVisit == InitVisit /\ [][NextVisit]_vars

(***************************************************************************)
(* Properties of the graph builder (checked under SpecBuild)               *)
(***************************************************************************)
\* the edge lists built so far: the finished ones and the one under construction
EdgeLists == {imports_by_module[i].imports : i \in 1..Len(imports_by_module)} \cup {imported}

\* the visitors whose module name has been computed
Keyed == Range(visited) \cup Range(current)

\* C4: the edge list of every source module holds each target module name at most once.
C4_EdgeListDedup ==
    \A list \in EdgeLists :
        \A i, j \in 1..Len(list) : i # j => list[i].module_name # list[j].module_name

\* the parts of a path with a package-init leaf folded into its parent
CollapseInit(parts) ==
    IF Len(parts) > 1 /\ parts[Len(parts)] = InitName
    THEN SubSeq(parts, 1, Len(parts) - 1) ELSE parts

\* C5 as stated, for a run without a remapping table: the key of a file is its
\* dotted path below the project path, suffix stripped, a package-init leaf
\* folded into its parent.
C5_InitCollapsed ==
    mapping = <<>> => \A v \in Keyed : v.module_name = Join(CollapseInit(v.path))

\* C5 as amended: the key of a file is its dotted path below the project path,
\* suffix stripped, without its first part when the remapping table strips it,
\* and with a package-init leaf kept as the last segment; and the name of every
\* edge the resolver emits is the key of the file the edge targets.
C5_ModuleNameKey ==
    /\ \A v \in Keyed :
           /\ v.module_name \in {Join(v.path), Join(Tail(v.path))}
           /\ (\A i \in 1..Len(mapping) : mapping[i].key # v.path[1]) =>
                  v.module_name = Join(v.path)
           /\ LET segments == Split(v.module_name)
              IN segments[Len(segments)] = v.path[Len(v.path)]
    /\ \A list \in EdgeLists :
           \A i \in 1..Len(list) :
               LET target == Make(mapping, list[i].module_name).path
               IN /\ target \in pyfiles
                  /\ GetModuleNameFromPath(mapping, target) = list[i].module_name
                  /\ \A v \in Keyed : v.path = target => v.module_name = list[i].module_name

C5_Witness ==
    \E v \in Range(visited) :
        /\ v.path[Len(v.path)] = InitName
        /\ v.module_name = Join(v.path)
        /\ \E i \in 1..Len(imports_by_module) :
               \E j \in 1..Len(imports_by_module[i].imports) :
                   imports_by_module[i].imports[j].module_name = v.module_name

(***************************************************************************)
(* Properties of the resolver (checked under SpecResolve)                  *)
(***************************************************************************)
\* s1 .. s(n-L) followed by the segments of M, M possibly absent
RelativeTarget(base, level, module) ==
    LET s == Split(base)
        kept == IF level >= Len(s) THEN <<>> ELSE SubSeq(s, 1, Len(s) - level)
    IN Join(kept \o (IF module = <<>> THEN <<>> ELSE Split(module)))

\* C6: a From import of level L >= 1 and module part M resolves to what the
\* absolute statement `from A import <same names>` resolves to, A being the
\* importing module's name without its last L segments followed by M's segments.
C6_RelativeFromImport ==
    \A c \in Range(last) :
        (c.stmt.kind = "ImportFrom" /\ c.stmt.level >= 1) =>
            c.names = ImportFromNames(
                          [c.stmt EXCEPT !.module = RelativeTarget(c.base, c.stmt.level, c.stmt.module),
                                         !.level = 0],
                          mapping, pyfiles, c.base).names

\* the absolute dotted path P of a From import: M at level 0
AbsoluteTarget(c) ==
    IF c.stmt.level = 0 THEN c.stmt.module
    ELSE RelativeTarget(c.base, c.stmt.level, c.stmt.module)

\* a non-filtered From import whose absolute path P is a directory, no P.py, no P/__init__.py
IsPartialCase(c) ==
    /\ c.stmt.kind = "ImportFrom"
    /\ c.stmt.module # <<>>
    /\ ~IsBuiltinOrStdlib(c.stmt.module)
    /\ LET P == Make(mapping, AbsoluteTarget(c))
       IN /\ P.path \notin pyfiles
          /\ IsDir(pyfiles, P.path)
          /\ Append(P.path, InitName) \notin pyfiles

\* the names P.ni with exists(ni), in name order, without duplicates, and one
\* log entry for every ni without
PartialOutcome(c, exists(_)) ==
    LET P == AbsoluteTarget(c)
        ns == c.stmt.names
        full(i) == Join(<<P, ns[i]>>)
        firstAt(name) == CHOOSE i \in 1..Len(ns) :
                             full(i) = name /\ \A j \in 1..(i - 1) : full(j) # name
    IN /\ Range(c.names) = {full(i) : i \in {k \in 1..Len(ns) : exists(ns[k])}}
       /\ \A i, j \in 1..Len(c.names) : i < j => firstAt(c.names[i]) < firstAt(c.names[j])
       /\ Len(c.log) = Cardinality({k \in 1..Len(ns) : ~exists(ns[k])})
       /\ \A k \in 1..Len(c.log) : c.log[k] = LogNode("ImportFrom", c.base)

\* C7 as stated: the names returned are the P.ni for which the file P/ni.py exists.
C7_PartialResolutionLiteral ==
    \A c \in Range(last) :
        IsPartialCase(c) =>
            LET dir == Make(mapping, AbsoluteTarget(c)).path
                exists(ni) == Append(dir, ni) \in pyfiles
            IN PartialOutcome(c, exists)

\* C7 as amended: the names returned are, in name order and without duplicates,
\* the P.ni for which the file of the module P.ni exists, that file being found
\* with the remapping table applied to the segments of P.ni (it is P/ni.py when
\* the table is empty); each ni without such a file gets one log entry.
C7_PartialResolution ==
    \A c \in Range(last) :
        IsPartialCase(c) =>
            LET P == AbsoluteTarget(c)
                parts(ni) == Split(P) \o <<ni>>
                hits(ni) == {i \in 1..Len(mapping) : Contains(parts(ni), mapping[i].value)}
                file(ni) == IF hits(ni) = {} THEN parts(ni)
                            ELSE <<mapping[CHOOSE i \in hits(ni) : \A j \in hits(ni) : i <= j].key>>
                                     \o parts(ni)
                exists(ni) == file(ni) \in pyfiles
            IN PartialOutcome(c, exists)

C7_Witness ==
    \E c \in Range(last) :
        /\ IsPartialCase(c)
        /\ Len(c.stmt.names) = 2
        /\ c.stmt.names[1] # c.stmt.names[2]
        /\ Len(c.names) = 1
        /\ Len(c.log) = 1

(***************************************************************************)
(* Properties of _visit_python_files (checked under SpecVisit)             *)
(***************************************************************************)
\* C8: a file that cannot be read or parsed is skipped, every other file is
\* visited, and the run does not abort.
C8_FailureIsolation ==
    /\ run_state # "aborted"
    /\ run_state = "finished" =>
           /\ file_idx = Len(files)
           /\ Range(visitors) = {i \in 1..Len(files) : files[i] = "ok"}

(***************************************************************************)
(* SpecWalk: ast.parse delivers a tree, then NodeVisitorImports.visit walks *)
(* it.  A tree is the sequence of the statement nodes below the Module in  *)
(* preorder, each with its class and its parent (0: the Module).           *)
(* ast.NodeVisitor.visit calls the method                                  *)
(* visit_<class> when the visitor has one and generic_visit otherwise.     *)
(* visit_Import and visit_ImportFrom do not descend, so these nodes are    *)
(* leaves of the walk.                                                     *)
(***************************************************************************)
MaxNodes == 3

\* the classes whose visit_ method puts the node on _context
ContextClasses == {"If", "Try", "ClassDef", "FunctionDef"}

\* compound statements without a visit_ method: generic_visit walks their children
GenericClasses == {"For", "With", "AsyncFunctionDef"}

ImportClasses == {"Import", "ImportFrom"}

NodeClasses == ContextClasses \cup GenericClasses \cup ImportClasses

\* the ancestors of node n below the Module and n itself, outermost first
RECURSIVE PathTo(_, _)
PathTo(t, n) == IF n = 0 THEN <<>> ELSE Append(PathTo(t, t[n].parent), n)

\* the nodes the next node in preorder can be a child of
AttachPoints(t) ==
    LET path == PathTo(t, Len(t))
    IN {0} \cup {path[i] : i \in {j \in 1..Len(path) : t[path[j]].kind \notin ImportClasses}}

\* visitor = NodeVisitorImports(path), before ast.parse has delivered the tree
InitWalk ==
    /\ Blank
    /\ pyfiles = {}
    /\ mapping = <<>>
    /\ files = <<>>
    /\ file_idx = 0
    /\ visitors = <<>>
    /\ run_state = "parse"
    /\ NoWalk

\* tree = ast.parse(content): the next statement of the file, of any class, in
\* the body of any compound statement that is still open
ParseNode(class, parent) ==
    /\ run_state = "parse"
    /\ Len(tree) < MaxNodes
    /\ parent \in AttachPoints(tree)
    /\ tree' = Append(tree, [kind |-> class, parent |-> parent])
    /\ UNCHANGED <<walk, pos, self_context, import_stmts>>
    /\ UNCHANGED <<detectVars, fsVars, last, buildVars, visitVars>>

\* visitor.visit(tree): generic_visit of the Module
StartWalk ==
    /\ run_state = "parse"
    /\ run_state' = "visit"
    /\ walk' = <<0>>
    /\ UNCHANGED <<tree, pos, self_context, import_stmts>>
    /\ UNCHANGED <<detectVars, fsVars, last, buildVars, files, file_idx, visitors>>

\* the loop over the children of the innermost running visit has a next child
HasNextChild ==
    /\ walk # <<>>
    /\ pos < Len(tree)
    /\ tree[pos + 1].parent = walk[Len(walk)]

\* ... and ast.NodeVisitor.visit dispatches on its class
NextChildIs(class) == HasNextChild /\ tree[pos + 1].kind = class

\* the loop of the innermost running visit is exhausted
LoopDone(classes) ==
    /\ walk # <<>>
    /\ ~HasNextChild
    /\ walk[Len(walk)] # 0
    /\ tree[walk[Len(walk)]].kind \in classes

\* self._import_stmts.append(ImportSTMT(self._context, node))
VisitImport ==
    /\ NextChildIs("Import")
    /\ import_stmts' = Append(import_stmts,
           [kind |-> "Import", context |-> self_context, node |-> pos + 1])
    /\ pos' = pos + 1
    /\ UNCHANGED <<tree, walk, self_context>>
    /\ UNCHANGED <<detectVars, fsVars, last, buildVars, visitVars>>

\* self._import_stmts.append(ImportFromSTMT(self._context, node))
VisitImportFrom ==
    /\ NextChildIs("ImportFrom")
    /\ import_stmts' = Append(import_stmts,
           [kind |-> "ImportFrom", context |-> self_context, node |-> pos + 1])
    /\ pos' = pos + 1
    /\ UNCHANGED <<tree, walk, self_context>>
    /\ UNCHANGED <<detectVars, fsVars, last, buildVars, visitVars>>

\* self._context += (node,), then the loop over the children starts
EnterContext(class) ==
    /\ NextChildIs(class)
    /\ self_context' = Append(self_context, pos + 1)
    /\ walk' = Append(walk, pos + 1)
    /\ pos' = pos + 1
    /\ UNCHANGED <<tree, import_stmts>>
    /\ UNCHANGED <<detectVars, fsVars, last, buildVars, visitVars>>

\* the loop is exhausted: self._context = self._context[:-1]
LeaveContext(class) ==
    /\ LoopDone({class})
    /\ self_context' = SubSeq(self_context, 1, Len(self_context) - 1)
    /\ walk' = SubSeq(walk, 1, Len(walk) - 1)
    /\ UNCHANGED <<tree, pos, import_stmts>>
    /\ UNCHANGED <<detectVars, fsVars, last, buildVars, visitVars>>

VisitIf == EnterContext("If")

LeaveIf == LeaveContext("If")

VisitTry == EnterContext("Try")

LeaveTry == LeaveContext("Try")

VisitClassDef == EnterContext("ClassDef")

LeaveClassDef == LeaveContext("ClassDef")

VisitFunctionDef == EnterContext("FunctionDef")

LeaveFunctionDef == LeaveContext("FunctionDef")

\* no visit_ method for the class: generic_visit, _context is not touched
GenericVisit ==
    /\ \E class \in GenericClasses : NextChildIs(class)
    /\ walk' = Append(walk, pos + 1)
    /\ pos' = pos + 1
    /\ UNCHANGED <<tree, self_context, import_stmts>>
    /\ UNCHANGED <<detectVars, fsVars, last, buildVars, visitVars>>

\* generic_visit returns
GenericReturn ==
    /\ LoopDone(GenericClasses)
    /\ walk' = SubSeq(walk, 1, Len(walk) - 1)
    /\ UNCHANGED <<tree, pos, self_context, import_stmts>>
    /\ UNCHANGED <<detectVars, fsVars, last, buildVars, visitVars>>

\* generic_visit of the Module returns: visitor.visit(tree) is over
EndWalk ==
    /\ walk = <<0>>
    /\ ~HasNextChild
    /\ walk' = <<>>
    /\ run_state' = "yield"
    /\ UNCHANGED <<tree, pos, self_context, import_stmts>>
    /\ UNCHANGED <<detectVars, fsVars, last, buildVars, files, file_idx, visitors>>

NextWalk ==
    \/ \E class \in NodeClasses, parent \in 0..MaxNodes : ParseNode(class, parent)
    \/ StartWalk
    \/ VisitImport
    \/ VisitImportFrom
    \/ VisitIf
    \/ LeaveIf
    \/ VisitTry
    \/ LeaveTry
    \/ VisitClassDef
    \/ LeaveClassDef
    \/ VisitFunctionDef
    \/ LeaveFunctionDef
    \/ GenericVisit
    \/ GenericReturn
    \/ EndWalk

SpecWalk == InitWalk /\ [][NextWalk]_vars

(***************************************************************************)
(* Properties of NodeVisitorImports (checked under SpecWalk)               *)
(***************************************************************************)
\* the constructs that own a marker: conditionals (if), exception handling
\* (try), class bodies (class) and function bodies (def, async def)
MarkedConstructs == {"If", "Try", "ClassDef", "FunctionDef", "AsyncFunctionDef"}

\* the ancestors of node n that are constructs of the given classes, outermost first
EnclosingMarkers(t, n, classes) ==
    SelectSeq(PathTo(t, t[n].parent), LAMBDA a : t[a].kind \in classes)

\* the constructs of the given classes whose visit is running, outermost first
OpenMarkers(t, w, classes) ==
    SelectSeq(w, LAMBDA a : a # 0 /\ t[a].kind \in classes)

ContextDiscipline(classes) ==
    /\ \A i \in 1..Len(import_stmts) :
           import_stmts[i].context =
               EnclosingMarkers(tree, import_stmts[i].node, classes)
    /\ self_context = OpenMarkers(tree, walk, classes)
    /\ run_state = "yield" => self_context = <<>> /\ pos = Len(tree)
    /\ \A i, j \in 1..Len(import_stmts) :
           i < j => import_stmts[i].node < import_stmts[j].node
    /\ {import_stmts[i].node : i \in 1..Len(import_stmts)} =
           {n \in 1..pos : tree[n].kind \in ImportClasses}
    /\ \A i \in 1..Len(import_stmts) :
           import_stmts[i].kind = tree[import_stmts[i].node].kind

\* C11: every recorded import statement carries its enclosing if / try / class
\* / function-body ancestors, outermost first, and nothing else; _context holds
\* the markers of the constructs still open, so it is empty when the walk ends;
\* the statements are recorded in preorder, none missing.
C11_ContextDiscipline == ContextDiscipline(MarkedConstructs)

\* the same discipline for the four classes that have a visit_ method
VisitMethodContext == ContextDiscipline(ContextClasses)

\* a finished walk over a tree with a nested import below a marked construct
\* followed by a sibling import
VisitMethodWitness ==
    /\ run_state = "yield"
    /\ \E i \in 1..Len(import_stmts) : Len(import_stmts[i].context) = 1
    /\ \E i \in 1..Len(import_stmts) :
           /\ import_stmts[i].context = <<>>
           /\ \E j \in 1..(i - 1) : import_stmts[j].context # <<>>

(***************************************************************************)
(* SpecLive: detect_cycles runs in a single thread without suspension      *)
(* points, so a step of the running call that can be taken is taken: weak  *)
(* fairness of the steps of the call.  Between the construction of the     *)
(* detector and the return of detect_cycles one of the steps can always be *)
(* taken, so ENABLED <<DetectStep>>_vars is phase = "detect", and          *)
(* WF_vars(DetectStep) is written with it.                                 *)
(***************************************************************************)
DetectStep ==
    \/ DetectRoot
    \/ FoundCycle
    \/ Descend
    \/ Return
    \/ Finish

DetectFairness == []<>(phase # "detect") \/ []<><<DetectStep>>_vars

SpecLive == Init /\ [][Next]_vars /\ DetectFairness

(***************************************************************************)
(* Termination of detect_cycles (checked under SpecLive)                   *)
(***************************************************************************)
PairwiseDistinct(s) == \A i, j \in 1..Len(s) : i # j => s[i] # s[j]

\* the last element of the chain is its only repeated module and has exactly
\* one earlier occurrence
OneRepeat(chain) ==
    /\ Len(chain) >= 2
    /\ PairwiseDistinct(SubSeq(chain, 1, Len(chain) - 1))
    /\ Cardinality({i \in 1..(Len(chain) - 1) : chain[i] = chain[Len(chain)]}) = 1

ElementaryChains ==
    /\ \A k \in 1..Len(stack) :
           /\ PairwiseDistinct(stack[k].base_chain)
           /\ Len(stack[k].base_chain) = k
    /\ Len(stack) <= Cardinality(Names(module_imports))
    /\ \A i \in 1..Len(found) : OneRepeat(found[i])
    /\ \A i \in 1..Len(cycles) : \A j \in 1..Len(cycles[i].chains) :
           OneRepeat(cycles[i].chains[j])

\* C12: every chain handed to a recursive call of _detect_cycles has pairwise
\* distinct modules, so the recursion is never deeper than the number of module
\* names of the graph; every recorded chain repeats exactly one module, its
\* last, exactly once; and detect_cycles, once started, returns.
C12_TerminationElementary ==
    /\ []ElementaryChains
    /\ (phase = "detect") ~> (phase = "done")

\* a finished run that went as deep as the graph has module names and recorded
\* the chain found there
C12_Witness ==
    /\ phase = "done"
    /\ Cardinality(Names(module_imports)) >= 2
    /\ \E i \in 1..Len(found) :
           Len(found[i]) = Cardinality(Names(module_imports)) + 1

====
